---- MODULE Spec2Model ----
(***************************************************************************)
(* Model of src/app.py: CalculatorEngine.calculate (the evaluator) and the *)
(* /calculate request handler (the transport) that calls it.               *)
(*                                                                         *)
(* Texts are sequences of one-character strings.  Numbers that do not fit  *)
(* a machine word (Decimal coefficients, Python ints, float mantissas) are *)
(* sequences of decimal digits, most significant first, without leading    *)
(* zeros; zero is <<0>>.                                                   *)
(***************************************************************************)
EXTENDS Integers, Sequences, FiniteSets, TLC

(***************************************************************************)
(* Arbitrary-precision naturals (Python int, Decimal._int).                *)
(***************************************************************************)
\* n zeros
Zeros(n) == [i \in 1..n |-> 0]

\* d without its leading zeros; <<0>> when nothing else is left
StripZeros(d) ==
    IF \A i \in 1..Len(d) : d[i] = 0 THEN <<0>>
    ELSE LET first == CHOOSE i \in 1..Len(d) :
                         d[i] # 0 /\ \A j \in 1..(i - 1) : d[j] = 0
         IN  SubSeq(d, first, Len(d))

Reverse(s) == [i \in 1..Len(s) |-> s[Len(s) + 1 - i]]

NatIsZero(a) == a = <<0>>

NatIsOdd(a) == a[Len(a)] % 2 = 1

\* -1, 0, 1 as a < b, a = b, a > b
NatCmp(a, b) ==
    IF Len(a) < Len(b) THEN -1
    ELSE IF Len(a) > Len(b) THEN 1
    ELSE IF a = b THEN 0
    ELSE LET i == CHOOSE j \in 1..Len(a) :
                     a[j] # b[j] /\ \A l \in 1..(j - 1) : a[l] = b[l]
         IN  IF a[i] < b[i] THEN -1 ELSE 1

\* digit i of a counted from the least significant one (i = 0), 0 beyond a
DigitAt(a, i) == IF i < Len(a) THEN a[Len(a) - i] ELSE 0

\* F applied to s[lo], ..., s[hi] in turn, each application handing its
\* state to the next: <<the outputs, the last state>>.  The range is halved
\* so that the evaluation stays shallow.
RECURSIVE Scan(_, _, _, _, _)
Scan(F(_, _), s, lo, hi, st) ==
    IF lo > hi THEN <<<<>>, st>>
    ELSE IF lo = hi THEN LET r == F(s[lo], st) IN <<<<r[1]>>, r[2]>>
    ELSE LET mid == (lo + hi) \div 2
             L   == Scan(F, s, lo, mid, st)
             R   == Scan(F, s, mid + 1, hi, L[2])
         IN  <<L[1] \o R[1], R[2]>>

\* the sum of F(lo), ..., F(hi)
RECURSIVE Sum(_, _, _)
Sum(F(_), lo, hi) ==
    IF lo > hi THEN 0
    ELSE IF lo = hi THEN F(lo)
    ELSE LET mid == (lo + hi) \div 2
         IN  Sum(F, lo, mid) + Sum(F, mid + 1, hi)

\* the digits of a machine word 0 <= n < 2^31
SmallDigits(n) == StripZeros([i \in 1..10 |-> (n \div 10^(10 - i)) % 10])

\* the machine word a natural of at most 9 digits is
SmallVal(a) == Sum(LAMBDA i : a[i] * 10^(Len(a) - i), 1, Len(a))

CarryStep(x, carry) == <<(x + carry) % 10, (x + carry) \div 10>>

\* the natural whose digit at 10^(i-1) is v[i], the v[i] being any machine
\* words whose weighted sum is not negative
CarryPropagate(v) ==
    LET r == Scan(CarryStep, v, 1, Len(v), 0)
    IN  StripZeros(SmallDigits(r[2]) \o Reverse(r[1]))

NatAdd(a, b) ==
    CarryPropagate([i \in 1..Len(a) + Len(b) |->
                       DigitAt(a, i - 1) + DigitAt(b, i - 1)])

\* a - b for a >= b
NatSub(a, b) ==
    CarryPropagate([i \in 1..Len(a) |-> DigitAt(a, i - 1) - DigitAt(b, i - 1)])

\* a * s for a machine word 0 <= s < 2^27
NatMulSmall(a, s) == CarryPropagate([i \in 1..Len(a) |-> DigitAt(a, i - 1) * s])

NatMul(a, b) ==
    CarryPropagate([k \in 1..Len(a) + Len(b) |->
        Sum(LAMBDA i : DigitAt(a, i) * DigitAt(b, k - 1 - i), 0, k - 1)])

\* <<a div s, a mod s>> for a machine word 0 < s < 2^27; the remainder is a
\* machine word
NatDivModSmall(a, s) ==
    LET r == Scan(LAMBDA x, rem : <<(rem * 10 + x) \div s, (rem * 10 + x) % s>>,
                  a, 1, Len(a), 0)
    IN  <<StripZeros(r[1]), r[2]>>

\* <<r div b, r mod b>> for r < 10 * b, by repeated subtraction
RECURSIVE CountSub(_, _, _)
CountSub(r, b, q) ==
    IF NatCmp(r, b) < 0 THEN <<q, r>> ELSE CountSub(NatSub(r, b), b, q + 1)

\* divmod(a, b): <<a div b, a mod b>> for b > 0, by long division
NatDivMod(a, b) ==
    LET r == Scan(LAMBDA x, rem : CountSub(StripZeros(rem \o <<x>>), b, 0),
                  a, 1, Len(a), <<0>>)
    IN  <<StripZeros(r[1]), r[2]>>

RECURSIVE Pow2(_)
Pow2(k) ==
    IF k < 27 THEN SmallDigits(2^k)
    ELSE NatMul(Pow2(k \div 2), Pow2(k - k \div 2))

RECURSIVE Pow5(_)
Pow5(k) ==
    IF k < 12 THEN SmallDigits(5^k)
    ELSE NatMul(Pow5(k \div 2), Pow5(k - k \div 2))

\* int.bit_length()
RECURSIVE BitLen(_)
BitLen(a) ==
    IF Len(a) > 9 THEN 20 + BitLen(NatDivModSmall(a, 2^20)[1])
    ELSE LET n == SmallVal(a)
         IN  CHOOSE t \in 0..30 : n < 2^t /\ (t = 0 \/ n >= 2^(t - 1))

(***************************************************************************)
(* Texts.  '−', '×' and '÷' are written by their code points; "-" is the   *)
(* ASCII hyphen-minus, which is not an accepted operator.                  *)
(***************************************************************************)
MINUS  == "U+2212"
TIMES  == "U+00D7"
DIVIDE == "U+00F7"

Whitespace == {" ", "\t", "\n", "\r"}

DigitChars == <<"0", "1", "2", "3", "4", "5", "6", "7", "8", "9">>

IsDigit(c) == \E i \in 1..10 : DigitChars[i] = c

DigitVal(c) == (CHOOSE i \in 1..10 : DigitChars[i] = c) - 1

\* str.lower() on the letters the Decimal grammar knows
Lower(c) ==
    CASE c = "E" -> "e" [] c = "I" -> "i" [] c = "N" -> "n" [] c = "F" -> "f"
      [] c = "T" -> "t" [] c = "Y" -> "y" [] c = "A" -> "a" [] c = "S" -> "s"
      [] OTHER -> c

LowerText(s) == [i \in 1..Len(s) |-> Lower(s[i])]

\* str.strip(): s from its first to its last character that is no whitespace
Strip(s) ==
    LET inner == {i \in 1..Len(s) : s[i] \notin Whitespace}
    IN  IF inner = {} THEN <<>>
        ELSE SubSeq(s, CHOOSE i \in inner : \A j \in inner : i <= j,
                       CHOOSE i \in inner : \A j \in inner : i >= j)

\* str.replace("_", "")
RemoveUnderscores(s) == SelectSeq(s, LAMBDA c : c # "_")

(***************************************************************************)
(* Decimal values: [kind, sign, int, exp] as decimal.Decimal keeps them    *)
(* (_is_special, _sign, _int, _exp); kind is "fin", "inf", "nan" or "snan". *)
(***************************************************************************)
Dec(sign, int, exp) == [kind |-> "fin", sign |-> sign, int |-> int, exp |-> exp]

DecSpecial(kind, sign) == [kind |-> kind, sign |-> sign, int |-> <<0>>, exp |-> 0]

\* an exception raised in place of a value
Raised(name) == [kind |-> name, sign |-> 0, int |-> <<0>>, exp |-> 0]

InvalidOperation == Raised("InvalidOperation")

Exceptions ==
    {"InvalidOperation", "Overflow", "DivisionByZero", "TypeError",
     "ValueError", "OverflowError", "KeyError", "AttributeError",
     "BadRequest"}

IsRaised(v) == v.kind \in Exceptions

\* the index after the run of digits that starts at s[i]
SkipDigits(s, i) ==
    CHOOSE j \in i..(Len(s) + 1) :
        /\ \A l \in i..(j - 1) : IsDigit(s[l])
        /\ (j = Len(s) + 1 \/ ~IsDigit(s[j]))

ToDigits(s) == [i \in 1..Len(s) |-> DigitVal(s[i])]

\* int() of a digit text of at most 9 digits
SmallInt(s) == IF s = <<>> THEN 0 ELSE SmallVal(ToDigits(s))

\* the number branch of the Decimal grammar: digits [. digits] [E [sign] digits]
ParseNumber(sign, s) ==
    LET i1       == SkipDigits(s, 1)
        hasDot   == i1 <= Len(s) /\ s[i1] = "."
        i2       == IF hasDot THEN SkipDigits(s, i1 + 1) ELSE i1
        intpart  == SubSeq(s, 1, i1 - 1)
        fracpart == IF hasDot THEN SubSeq(s, i1 + 1, i2 - 1) ELSE <<>>
        hasExp   == i2 <= Len(s) /\ Lower(s[i2]) = "e"
        hasESign == hasExp /\ i2 + 1 <= Len(s) /\ s[i2 + 1] \in {"+", "-"}
        e1       == IF hasESign THEN i2 + 2 ELSE i2 + 1
        i3       == IF hasExp THEN SkipDigits(s, e1) ELSE i2
        expText  == IF hasExp THEN SubSeq(s, e1, i3 - 1) ELSE <<>>
        expAbs   == SmallInt(expText)
        exp      == IF hasESign /\ s[i2 + 1] = "-" THEN 0 - expAbs ELSE expAbs
    IN  IF /\ Len(intpart) + Len(fracpart) > 0
           /\ (hasExp => Len(expText) > 0)
           /\ i3 = Len(s) + 1
        THEN Dec(sign, StripZeros(ToDigits(intpart \o fracpart)),
                 exp - Len(fracpart))
        ELSE InvalidOperation

\* the special branches of the grammar: Inf[inity], [s]NaN[digits]
ParseSpecial(sign, s) ==
    LET t == LowerText(s)
    IN  IF t = <<"i", "n", "f">> \/ t = <<"i", "n", "f", "i", "n", "i", "t", "y">>
        THEN DecSpecial("inf", sign)
        ELSE IF Len(t) >= 3 /\ SubSeq(t, 1, 3) = <<"n", "a", "n">>
                /\ SkipDigits(t, 4) = Len(t) + 1
        THEN DecSpecial("nan", sign)
        ELSE IF Len(t) >= 4 /\ SubSeq(t, 1, 4) = <<"s", "n", "a", "n">>
                /\ SkipDigits(t, 5) = Len(t) + 1
        THEN DecSpecial("snan", sign)
        ELSE InvalidOperation

\* Decimal(text): the value, or InvalidOperation when the text is no numeric
\* string
ParseDecimal(text) ==
    LET s      == RemoveUnderscores(Strip(text))
        signed == Len(s) > 0 /\ s[1] \in {"+", "-"}
        sign   == IF signed /\ s[1] = "-" THEN 1 ELSE 0
        body   == IF signed THEN Tail(s) ELSE s
        num    == ParseNumber(sign, body)
    IN  IF num # InvalidOperation THEN num ELSE ParseSpecial(sign, body)


(***************************************************************************)
(* Decimal arithmetic under the default context.                           *)
(***************************************************************************)
\* getcontext().prec
Prec == 28

\* getcontext().Emax
Emax == 999999

\* getcontext().Emin
Emin == -999999

\* Context.Etiny()
Etiny == Emin - Prec + 1

\* Context.Etop()
Etop == Emax - Prec + 1

Min(a, b) == IF a < b THEN a ELSE b

Max(a, b) == IF a > b THEN a ELSE b

\* bool(Decimal): a finite zero is false
DecIsZero(d) == d.kind = "fin" /\ NatIsZero(d.int)

\* _all_zeros(val, i): the digits after the first i are all 0
AllZerosFrom(c, i) == \A j \in (i + 1)..Len(c) : c[j] = 0

\* _exact_half(val, i): the digits after the first i are 5000...
ExactHalf(c, i) == i < Len(c) /\ c[i + 1] = 5 /\ AllZerosFrom(c, i + 1)

\* Decimal._round_half_even(prec): 1 to round up, 0 when exact, -1 to
\* truncate, on the first i digits of c
RoundHalfEven(c, i) ==
    IF ExactHalf(c, i) /\ (i = 0 \/ c[i] % 2 = 0) THEN -1
    ELSE IF c[i + 1] >= 5 THEN 1
    ELSE IF AllZerosFrom(c, i) THEN 0
    ELSE -1

\* the first digits digits of c, rounded half-even on the rest
RoundedCoeff(c, digits) ==
    IF RoundHalfEven(c, digits) > 0
    THEN NatAdd(StripZeros(SubSeq(c, 1, digits)), <<1>>)
    ELSE StripZeros(SubSeq(c, 1, digits))

\* the rounded coefficient at the exponent exp: a coefficient that the
\* rounding carried to Prec + 1 digits loses its last digit
FixCarry(sign, coeff, exp) ==
    IF Len(coeff) <= Prec THEN Dec(sign, coeff, exp)
    ELSE IF exp + 1 > Etop THEN Raised("Overflow")
    ELSE Dec(sign, SubSeq(coeff, 1, Len(coeff) - 1), exp + 1)

\* d rounded to the exponent expMin when its exponent is below it
FixTo(d, expMin, digits) ==
    IF d.exp >= expMin THEN d
    ELSE FixCarry(d.sign,
                  RoundedCoeff(IF digits < 0 THEN <<1>> ELSE d.int,
                               Max(digits, 0)),
                  expMin)

\* Decimal._fix(context): round to the context's precision and exponent
\* range; Overflow is trapped
DecFix(d) ==
    IF d.kind # "fin" THEN d
    ELSE IF NatIsZero(d.int)
    THEN Dec(d.sign, <<0>>, Min(Max(d.exp, Etiny), Emax))
    ELSE IF Len(d.int) + d.exp - Prec > Etop THEN Raised("Overflow")
    ELSE FixTo(d, Max(Len(d.int) + d.exp - Prec, Etiny),
               Len(d.int) + d.exp - Max(Len(d.int) + d.exp - Prec, Etiny))

\* Decimal._check_nans(other): the NaN result or the signal, [kind |-> "none"]
\* when neither operand is a NaN
CheckNans(a, b) ==
    IF a.kind = "snan" \/ b.kind = "snan" THEN InvalidOperation
    ELSE IF a.kind = "nan" THEN DecSpecial("nan", a.sign)
    ELSE IF b.kind = "nan" THEN DecSpecial("nan", b.sign)
    ELSE Raised("none")

\* Decimal.copy_negate()
DecNegate(d) == [d EXCEPT !.sign = 1 - d.sign]

\* the signed sum of the coefficients bInt (of sign bs) and sInt (of sign
\* ss) at the exponent exp; an exact zero has the exponent zeroExp
SignedSum(bs, bInt, ss, sInt, exp, zeroExp) ==
    IF bs = ss THEN Dec(bs, NatAdd(bInt, sInt), exp)
    ELSE IF NatCmp(bInt, sInt) = 0 THEN Dec(0, <<0>>, zeroExp)
    ELSE IF NatCmp(bInt, sInt) > 0 THEN Dec(bs, NatSub(bInt, sInt), exp)
    ELSE Dec(ss, NatSub(sInt, bInt), exp)

\* _normalize(op1, op2, prec): big has the larger exponent; a small operand
\* below the exponent exp is replaced by 1 at exp, and big is padded to the
\* exponent of the other
Normalized(big, small, replaced, exp, zeroExp) ==
    SignedSum(big.sign,
              big.int \o Zeros(big.exp - (IF replaced THEN exp ELSE small.exp)),
              small.sign,
              IF replaced THEN <<1>> ELSE small.int,
              IF replaced THEN exp ELSE small.exp,
              zeroExp)

Normalize(big, small, exp, zeroExp) ==
    Normalized(big, small, Len(small.int) + small.exp - 1 < exp, exp, zeroExp)

\* _normalize(op1, op2, prec) followed by the signed sum of __add__, for
\* finite nonzero a and b, before the rounding
DecAddNonzero(a, b) ==
    Normalize(IF a.exp < b.exp THEN b ELSE a,
              IF a.exp < b.exp THEN a ELSE b,
              (IF a.exp < b.exp THEN b.exp + Min(-1, Len(b.int) - Prec - 2)
               ELSE a.exp + Min(-1, Len(a.int) - Prec - 2)),
              Min(a.exp, b.exp))

\* d at the smaller exponent e
Rescaled(d, e) == Dec(d.sign, d.int \o Zeros(d.exp - e), e)

\* __add__ before the rounding of the result
DecAddUnrounded(a, b, nans, exp) ==
    IF nans.kind # "none" THEN nans
    ELSE IF a.kind = "inf"
    THEN (IF b.kind = "inf" /\ a.sign # b.sign THEN InvalidOperation ELSE a)
    ELSE IF b.kind = "inf" THEN b
    ELSE IF DecIsZero(a) /\ DecIsZero(b)
    THEN Dec(Min(a.sign, b.sign), <<0>>, exp)
    ELSE IF DecIsZero(a) THEN Rescaled(b, Max(exp, b.exp - Prec - 1))
    ELSE IF DecIsZero(b) THEN Rescaled(a, Max(exp, a.exp - Prec - 1))
    ELSE DecAddNonzero(a, b)

\* Decimal.__add__
DecAdd(a, b) ==
    DecFix(DecAddUnrounded(a, b, CheckNans(a, b), Min(a.exp, b.exp)))

\* Decimal.__sub__
DecSub(a, b) ==
    IF CheckNans(a, b).kind # "none" THEN CheckNans(a, b)
    ELSE DecAdd(a, DecNegate(b))

Xor(s, t) == IF s = t THEN 0 ELSE 1

\* __mul__ before the rounding of the result
DecMulUnrounded(a, b, nans, sign) ==
    IF nans.kind # "none" THEN nans
    ELSE IF a.kind = "inf"
    THEN (IF DecIsZero(b) THEN InvalidOperation ELSE DecSpecial("inf", sign))
    ELSE IF b.kind = "inf"
    THEN (IF DecIsZero(a) THEN InvalidOperation ELSE DecSpecial("inf", sign))
    ELSE IF DecIsZero(a) \/ DecIsZero(b) THEN Dec(sign, <<0>>, a.exp + b.exp)
    ELSE Dec(sign, NatMul(a.int, b.int), a.exp + b.exp)

\* Decimal.__mul__
DecMul(a, b) ==
    DecFix(DecMulUnrounded(a, b, CheckNans(a, b), Xor(a.sign, b.sign)))

\* the number of trailing zeros of a nonzero coefficient
TrailingZeros(c) ==
    CHOOSE t \in 0..(Len(c) - 1) :
        c[Len(c) - t] # 0 /\ \A j \in (Len(c) - t + 1)..Len(c) : c[j] = 0

\* the exact-quotient loop of __truediv__: drop trailing zeros while the
\* exponent is below the ideal one
DivTrim(coeff, exp, ideal) ==
    LET t == Min(TrailingZeros(coeff), Max(ideal - exp, 0))
    IN  <<SubSeq(coeff, 1, Len(coeff) - t), exp + t>>

\* the coefficient and exponent of the quotient qr[1] with remainder qr[2]:
\* an exact quotient is trimmed, an inexact one that ends in 0 or 5 gets a
\* sticky 1
Quotient(qr, exp, ideal) ==
    IF NatIsZero(qr[2]) THEN DivTrim(qr[1], exp, ideal)
    ELSE IF qr[1][Len(qr[1])] % 5 = 0 THEN <<NatAdd(qr[1], <<1>>), exp>>
    ELSE <<qr[1], exp>>

\* divmod of the coefficients, the dividend shifted for Prec + 1 digits
DivShifted(a, b, shift) ==
    Quotient(NatDivMod(a.int \o Zeros(Max(shift, 0)),
                       b.int \o Zeros(Max(0 - shift, 0))),
             a.exp - b.exp - shift, a.exp - b.exp)

QuotientDec(sign, ce) == Dec(sign, ce[1], ce[2])

\* __truediv__ before the rounding of the result
DecDivUnrounded(a, b, nans, sign) ==
    IF nans.kind # "none" THEN nans
    ELSE IF a.kind = "inf" /\ b.kind = "inf" THEN InvalidOperation
    ELSE IF a.kind = "inf" THEN DecSpecial("inf", sign)
    ELSE IF b.kind = "inf" THEN Dec(sign, <<0>>, Etiny)
    ELSE IF DecIsZero(b)
    THEN (IF DecIsZero(a) THEN InvalidOperation ELSE Raised("DivisionByZero"))
    ELSE IF DecIsZero(a) THEN Dec(sign, <<0>>, a.exp - b.exp)
    ELSE QuotientDec(sign,
                     DivShifted(a, b, Len(b.int) - Len(a.int) + Prec + 1))

\* Decimal.__truediv__
DecDiv(a, b) ==
    DecFix(DecDivUnrounded(a, b, CheckNans(a, b), Xor(a.sign, b.sign)))

\* a zero test on the written form: only the decimal 0 itself is zero
DecEqZeroTextual(d) ==
    IF d.kind = "snan" THEN "raise"
    ELSE IF d = Dec(0, <<0>>, 0) THEN "true"
    ELSE "false"

\* Decimal.__eq__(0): False for a quiet NaN; comparing a signaling NaN
\* raises InvalidOperation ("raise" here)
DecEqZero(d) ==
    IF d.kind = "snan" THEN "raise"
    ELSE IF DecIsZero(d) THEN "true"
    ELSE "false"


(***************************************************************************)
(* Python floats (IEEE 754 binary64) and ints: [kind, sign, m, k].         *)
(* kind "float" is the finite double (-1)^sign * m * 2^k, as IEEE 754      *)
(* keeps it: 2^52 <= m < 2^53, or m < 2^52 and k = -1074 (a subnormal), or *)
(* m = 0 and k = 0; kind "int" is the Python int (-1)^sign * m; "inf" and  *)
(* "nan" are the non-finite doubles; "None" is Python's None.              *)
(***************************************************************************)
\* DBL_MANT_DIG
MantDig == 53

\* DBL_MAX_EXP: finite doubles are below 2^1024
MaxExp == 1024

\* the exponent of the smallest subnormal, 2^-1074
MinSubExp == -1074

Num(kind, sign, m, k) == [kind |-> kind, sign |-> sign, m |-> m, k |-> k]

None == Num("None", 0, <<0>>, 0)

FloatNaN == Num("nan", 0, <<0>>, 0)

FloatInf(sign) == Num("inf", sign, <<0>>, 0)

FloatZero(sign) == Num("float", sign, <<0>>, 0)

RaisedNum(name) == Num(name, 0, <<0>>, 0)

\* floor(log2(N / D)), which is bl or bl - 1 for bl the difference of the
\* bit lengths
FloorLog2At(N, D, bl) ==
    IF NatCmp(NatMul(N, Pow2(Max(0 - bl, 0))), NatMul(D, Pow2(Max(bl, 0)))) >= 0
    THEN bl ELSE bl - 1

FloorLog2(N, D) == FloorLog2At(N, D, BitLen(N) - BitLen(D))

\* the quotient qr[1] of a division by den with remainder qr[2], rounded to
\* the nearest natural, ties to even
RoundQuotient(qr, den) ==
    LET half == NatCmp(NatMulSmall(qr[2], 2), den)
    IN  IF half > 0 \/ (half = 0 /\ NatIsOdd(qr[1]))
        THEN NatAdd(qr[1], <<1>>)
        ELSE qr[1]

\* num / den rounded to the nearest natural, ties to even
DivRound(num, den) == RoundQuotient(NatDivMod(num, den), den)

\* the double (-1)^sign * m * 2^k, an infinity when it is out of range
FiniteOrInf(sign, m, k) ==
    IF BitLen(m) + k > MaxExp THEN FloatInf(sign)
    ELSE Num("float", sign, m, k)

\* the double of the rounded significand m0 at the exponent -s; a
\* significand rounded up to 2^MantDig is renormalised
MakeDouble(sign, m0, s, over) ==
    IF NatIsZero(m0) THEN FloatZero(sign)
    ELSE FiniteOrInf(sign,
                     IF over THEN NatDivModSmall(m0, 2)[1] ELSE m0,
                     IF over THEN 1 - s ELSE 0 - s)

RoundedDouble(sign, m0, s) == MakeDouble(sign, m0, s, BitLen(m0) > MantDig)

\* N / D rounded to a multiple of 2^-s
NearestDoubleAt(sign, N, D, s) ==
    RoundedDouble(sign,
                  DivRound(NatMul(N, Pow2(Max(s, 0))),
                           NatMul(D, Pow2(Max(0 - s, 0)))),
                  s)

\* the double nearest to N / D (ties to even) for naturals N, D > 0: what
\* strtod returns for the decimal text of N / D
NearestDouble(sign, N, D) ==
    NearestDoubleAt(sign, N, D,
                    Min(MantDig - 1 - FloorLog2(N, D), 0 - MinSubExp))

\* float(text of the finite decimal (-1)^sign * c * 10^e)
DecimalTextToDouble(sign, c, e) ==
    IF NatIsZero(c) THEN FloatZero(sign)
    ELSE IF Len(c) + e - 1 >= 309 THEN FloatInf(sign)       \* above DBL_MAX
    ELSE IF Len(c) + e - 1 <= -325 THEN FloatZero(sign)     \* below 2^-1075
    ELSE NearestDouble(sign, c \o Zeros(Max(e, 0)),
                       <<1>> \o Zeros(Max(0 - e, 0)))

\* Decimal.__float__ (float() of None raises TypeError)
ToFloat(d) ==
    IF d.kind = "None" THEN RaisedNum("TypeError")
    ELSE IF d.kind = "snan" THEN RaisedNum("ValueError")
    ELSE IF d.kind = "nan" THEN FloatNaN
    ELSE IF d.kind = "inf" THEN FloatInf(d.sign)
    ELSE DecimalTextToDouble(d.sign, d.int, d.exp)

\* float.is_integer() of a finite double
FloatIsInteger(f) ==
    \/ NatIsZero(f.m)
    \/ f.k >= 0
    \/ f.k > 0 - MantDig /\ NatIsZero(NatDivMod(f.m, Pow2(0 - f.k))[2])

\* the Python int (-1)^sign * n
IntOf(sign, n) == Num("int", IF NatIsZero(n) THEN 0 ELSE sign, n, 0)

\* int(float): ValueError for NaN, OverflowError for an infinity, and
\* truncation towards zero
FloatToInt(f) ==
    IF f.kind = "nan" THEN RaisedNum("ValueError")
    ELSE IF f.kind = "inf" THEN RaisedNum("OverflowError")
    ELSE IF f.k <= 0 - MantDig THEN IntOf(f.sign, <<0>>)
    ELSE IntOf(f.sign,
               NatDivMod(NatMul(f.m, Pow2(Max(f.k, 0))),
                         Pow2(Max(0 - f.k, 0)))[1])

\* float == n for n the int() of the float: equal exactly when the float
\* has no fractional part
FloatEqInt(f, n) == n.kind = "int" /\ FloatIsInteger(f)

\* the number of fractional digits round() keeps
NDigits == 10

\* the double of coeff * 10^-NDigits
FloatOfCoeff(sign, coeff) ==
    IF NatIsZero(coeff) THEN FloatZero(sign)
    ELSE NearestDouble(sign, coeff, <<1>> \o Zeros(NDigits))

\* c * 10^k, the exact value of the double, rounded to NDigits decimals
FloatRoundExact(sign, c, k) ==
    FloatOfCoeff(sign, RoundedCoeff(c, Len(c) + k + NDigits))

\* round(f, NDigits) of a finite double: the exact binary value rounded
\* half-even to NDigits decimals (dtoa mode 3), read back by strtod
FloatRound(f) ==
    IF f.k >= 0 - NDigits THEN f
    ELSE IF BitLen(f.m) + f.k <= -35 THEN FloatZero(f.sign)   \* below 5e-11
    ELSE FloatRoundExact(f.sign, NatMul(f.m, Pow5(0 - f.k)), f.k)


(***************************************************************************)
(* The inputs: operand and operator texts a caller may pass.               *)
(***************************************************************************)
OperandTexts ==
    { <<"1">>,
      <<"3">>,
      <<"0">>,
      <<"-", "0", ".", "0">>,
      <<"\t", "1", "_", "0", " ">>,
      <<".", "5">>,
      <<"0", ".", "0", "0", "0", "0", "0", "0", "0", "0", "0", "0", "1">>,
      <<"9", "0", "0", "7", "1", "9", "9", "2", "5", "4", "7", "4", "0", "9",
        "9", "3">>,
      <<"1", "E", "+", "9", "9", "9", "9", "9", "9">>,
      <<"N", "a", "N">>,
      <<"s", "N", "a", "N">>,
      <<"-", "I", "n", "f", "i", "n", "i", "t", "y">>,
      <<>>,
      <<"a", "b", "c">>,
      <<"1", "e">> }

OperatorTexts ==
    { <<"+">>, <<MINUS>>, <<TIMES>>, <<DIVIDE>>,
      <<"-">>, <<"?">>, <<>>, <<" ", DIVIDE>> }

\* a key the JSON object does not hold
Absent == <<"(absent)">>

FieldTexts == OperandTexts \cup {<<" ">>, Absent}

OperatorFieldTexts == OperatorTexts \cup {<<" ">>, Absent}

\* what request.get_json() gives: it raises (a malformed body), returns
\* None (a JSON null), an empty value that is no object ("falsy"), a
\* non-empty value that is no object ("nondict"), or the JSON object with
\* text fields.  extra: the object holds a key other than the three fields.
Payload(kind, n1, n2, op, extra) ==
    [kind |-> kind, num1 |-> n1, num2 |-> n2, operator |-> op, extra |-> extra]

NoPayload == Payload("unset", Absent, Absent, Absent, FALSE)

Payloads ==
    { Payload("raise", Absent, Absent, Absent, FALSE),
      Payload("None", Absent, Absent, Absent, FALSE),
      Payload("falsy", Absent, Absent, Absent, FALSE),
      Payload("nondict", Absent, Absent, Absent, FALSE),
      Payload("dict", Absent, Absent, Absent, TRUE) }
    \cup { Payload("dict", n1, n2, op, FALSE) :
             n1 \in FieldTexts, n2 \in FieldTexts, op \in OperatorFieldTexts }

(***************************************************************************)
(* CalculatorEngine                                                        *)
(***************************************************************************)
\* CalculatorEngine.OPERATORS: the accepted symbols
OPERATORS == { <<"+">>, <<MINUS>>, <<TIMES>>, <<DIVIDE>> }

\* OPERATORS[operator](a, b)
Operation(operator, a, b) ==
    CASE operator = <<"+">>    -> DecAdd(a, b)
      [] operator = <<MINUS>>  -> DecSub(a, b)
      [] operator = <<TIMES>>  -> DecMul(a, b)
      [] operator = <<DIVIDE>> ->
            LET ne == DecEqZero(b)
            IN  IF ne = "raise" THEN InvalidOperation
                ELSE IF ne = "false" THEN DecDiv(a, b)
                ELSE Raised("None")
      [] OTHER                 -> Raised("KeyError")

\* an error message is the text; None is the empty sequence
NoError == <<>>

InvalidOperatorError(operator) == <<"Invalid operator: ">> \o operator

InvalidNumbersError == <<"Please enter valid numbers">>

DivideByZeroError == <<"Cannot divide by zero">>

UnexpectedError == <<"An unexpected error occurred">>

\* a failure that leaves a number in the result
FailureKeepsResult(error) ==
    [success |-> FALSE, result |-> Num("int", 0, <<0>>, 0), error |-> error]

Failure(error) == [success |-> FALSE, result |-> None, error |-> error]

Success(value) == [success |-> TRUE, result |-> value, error |-> NoError]

\* an inner try that catches ValueError alone
ParseCaughtValueErrorOnly == {"ValueError"}

\* the exceptions the inner try of calculate catches
ParseCaught == {"InvalidOperation", "ValueError"}

VARIABLES
    pc,               \* the position of the call
    caller,           \* "transport" or "direct": who called the engine
    data,             \* the handler's request.get_json()
    num1_str, num2_str, operator,      \* the engine's arguments
    num1, num2,       \* the parsed operands
    result,           \* the Decimal result (or None)
    result_float,     \* float(result)
    exc,              \* the last exception raised, "none" without one
    ret,              \* the dict calculate returns
    response,         \* the handler's (body, status)
    reached           \* the steps of calculate this call has entered

vars ==
    <<pc, caller, data, num1_str, num2_str, operator, num1, num2, result,
      result_float, exc, ret, response, reached>>

NoDec == Raised("unset")

NoNum == RaisedNum("unset")

NoResponse == [status |-> 0, success |-> FALSE, result |-> None, error |-> NoError]

Init ==
    /\ pc = "idle"
    /\ caller = "none"
    /\ data = NoPayload
    /\ num1_str = <<>>
    /\ num2_str = <<>>
    /\ operator = <<>>
    /\ num1 = NoDec
    /\ num2 = NoDec
    /\ result = NoDec
    /\ result_float = NoNum
    /\ exc = "none"
    /\ ret = Failure(NoError)
    /\ response = NoResponse
    /\ reached = {}

\* a caller other than the handler calls CalculatorEngine.calculate
DirectCall ==
    /\ pc = "idle"
    /\ \E n1 \in OperandTexts, n2 \in OperandTexts, op \in OperatorTexts :
          /\ num1_str' = n1
          /\ num2_str' = n2
          /\ operator' = op
    /\ caller' = "direct"
    /\ pc' = "validate_operator"
    /\ UNCHANGED <<data, num1, num2, result, result_float, exc, ret, response,
                   reached>>

\* a call that goes on to the parsing whatever the operator
ValidateOperatorUnchecked ==
    /\ pc = "validate_operator"
    /\ reached' = reached \cup {"validate_operator"}
    /\ pc' = "parse"
    /\ UNCHANGED <<caller, data, num1_str, num2_str, operator, num1, num2,
                   result, result_float, exc, ret, response>>

\* "if operator not in CalculatorEngine.OPERATORS"
ValidateOperator ==
    /\ pc = "validate_operator"
    /\ reached' = reached \cup {"validate_operator"}
    /\ IF operator \notin OPERATORS
       THEN /\ ret' = Failure(InvalidOperatorError(operator))
            /\ pc' = "returned"
       ELSE /\ pc' = "parse"
            /\ UNCHANGED ret
    /\ UNCHANGED <<caller, data, num1_str, num2_str, operator, num1, num2,
                   result, result_float, exc, response>>

\* the inner try: Decimal(str(num1_str).strip()), then num2 likewise
ParseOperands ==
    /\ pc = "parse"
    /\ reached' = reached \cup {"parse"}
    /\ LET d1     == ParseDecimal(Strip(num1_str))
           d2     == ParseDecimal(Strip(num2_str))
           raised == IF IsRaised(d1) THEN d1.kind
                     ELSE IF IsRaised(d2) THEN d2.kind ELSE "none"
       IN  /\ num1' = IF IsRaised(d1) THEN num1 ELSE d1
           /\ num2' = IF IsRaised(d1) \/ IsRaised(d2) THEN num2 ELSE d2
           /\ IF raised = "none"
              THEN pc' = "zero_check" /\ UNCHANGED <<ret, exc>>
              ELSE IF raised \in ParseCaught
              THEN /\ ret' = Failure(InvalidNumbersError)
                   /\ pc' = "returned"
                   /\ UNCHANGED exc
              ELSE pc' = "except" /\ exc' = raised /\ UNCHANGED ret
    /\ UNCHANGED <<caller, data, num1_str, num2_str, operator, result,
                   result_float, response>>

\* "if operator == DIVIDE and num2 == 0"
ZeroCheck ==
    /\ pc = "zero_check"
    /\ reached' = reached \cup {"zero_check"}
    /\ LET isZero == IF operator = <<DIVIDE>> THEN DecEqZero(num2) ELSE "false"
       IN  IF isZero = "raise"
           THEN pc' = "except" /\ exc' = "InvalidOperation" /\ UNCHANGED ret
           ELSE IF isZero = "true"
           THEN /\ ret' = Failure(DivideByZeroError)
                /\ pc' = "returned"
                /\ UNCHANGED exc
           ELSE pc' = "compute" /\ UNCHANGED <<ret, exc>>
    /\ UNCHANGED <<caller, data, num1_str, num2_str, operator, num1, num2,
                   result, result_float, response>>

\* "result = operation(num1, num2)"
Compute ==
    /\ pc = "compute"
    /\ reached' = reached \cup {"compute"}
    /\ LET r == Operation(operator, num1, num2)
       IN  IF IsRaised(r)
           THEN pc' = "except" /\ exc' = r.kind /\ UNCHANGED result
           ELSE pc' = "to_float" /\ result' = r /\ UNCHANGED exc
    /\ UNCHANGED <<caller, data, num1_str, num2_str, operator, num1, num2,
                   result_float, ret, response>>

\* "result_float = float(result)"
ConvertToFloat ==
    /\ pc = "to_float"
    /\ reached' = reached \cup {"to_float"}
    /\ LET f == ToFloat(result)
       IN  IF IsRaised(f)
           THEN pc' = "except" /\ exc' = f.kind /\ UNCHANGED result_float
           ELSE pc' = "format" /\ result_float' = f /\ UNCHANGED exc
    /\ UNCHANGED <<caller, data, num1_str, num2_str, operator, num1, num2,
                   result, ret, response>>

\* n for the float that equals its int() n, else round(result_float, 10); the
\* exception when int() raised
FormattedWith(f, n) ==
    IF IsRaised(n) THEN n
    ELSE IF FloatEqInt(f, n) THEN n
    ELSE FloatRound(f)

\* the formatted result
Formatted(f) == FormattedWith(f, FloatToInt(f))

\* the formatting, the log record and the successful return
FormatResult ==
    /\ pc = "format"
    /\ reached' = reached \cup {"format"}
    /\ LET v == Formatted(result_float)
       IN  IF IsRaised(v)
           THEN pc' = "except" /\ exc' = v.kind /\ UNCHANGED ret
           ELSE pc' = "returned" /\ ret' = Success(v) /\ UNCHANGED exc
    /\ UNCHANGED <<caller, data, num1_str, num2_str, operator, num1, num2,
                   result, result_float, response>>

\* a handler that catches ValueError alone
CaughtByHandlerValueErrorOnly(e) == e = "ValueError"

\* the exceptions "except Exception" catches: every exception the steps of
\* calculate raise
CaughtByHandler(e) == e \in Exceptions

\* "except Exception as e"
ExceptHandler ==
    /\ pc = "except"
    /\ IF CaughtByHandler(exc)
       THEN pc' = "returned" /\ ret' = Failure(UnexpectedError)
       ELSE pc' = "propagated" /\ UNCHANGED ret
    /\ UNCHANGED <<caller, data, num1_str, num2_str, operator, num1, num2,
                   result, result_float, exc, response, reached>>

(***************************************************************************)
(* The /calculate handler                                                  *)
(***************************************************************************)
Response(status, success, value, error) ==
    [status |-> status, success |-> success, result |-> value, error |-> error]

NoDataError == <<"No data provided">>

FillAllFieldsError == <<"Please fill all fields">>

ServerError == <<"Server error">>

\* a field read without strip()
FieldUnstripped(text) == IF text = Absent THEN <<>> ELSE text

\* data.get(key, '').strip()
Field(text) == IF text = Absent THEN <<>> ELSE Strip(text)

\* "not data": None, an empty JSON value that is no object ([], "", 0,
\* false), or a JSON object without keys
NotData(d) ==
    \/ d.kind \in {"None", "falsy"}
    \/ /\ d.kind = "dict"
       /\ d.num1 = Absent /\ d.num2 = Absent /\ d.operator = Absent
       /\ ~d.extra

\* "data = request.get_json()"
GetJson ==
    /\ pc = "idle"
    /\ \E d \in Payloads :
          /\ data' = d
          /\ IF d.kind = "raise"
             THEN pc' = "t_except" /\ exc' = "BadRequest"
             ELSE pc' = "t_check_data" /\ UNCHANGED exc
    /\ caller' = "transport"
    /\ UNCHANGED <<num1_str, num2_str, operator, num1, num2, result,
                   result_float, ret, response, reached>>

\* "if not data: return ..., 400"
CheckData ==
    /\ pc = "t_check_data"
    /\ IF NotData(data)
       THEN /\ response' = Response(400, FALSE, None, NoDataError)
            /\ pc' = "t_done"
       ELSE pc' = "t_fields" /\ UNCHANGED response
    /\ UNCHANGED <<caller, data, num1_str, num2_str, operator, num1, num2,
                   result, result_float, exc, ret, reached>>

\* the three fields, "if not all([num1, num2, operator])", and the call of
\* CalculatorEngine.calculate
ValidateFields ==
    /\ pc = "t_fields"
    /\ LET n1 == Field(data.num1)
           n2 == Field(data.num2)
           op == Field(data.operator)
       IN  IF data.kind = "nondict"         \* data.get raises
           THEN /\ pc' = "t_except"
                /\ exc' = "AttributeError"
                /\ UNCHANGED <<num1_str, num2_str, operator, response>>
           ELSE IF n1 = <<>> \/ n2 = <<>> \/ op = <<>>
           THEN /\ response' = Response(400, FALSE, None, FillAllFieldsError)
                /\ pc' = "t_done"
                /\ UNCHANGED <<num1_str, num2_str, operator, exc>>
           ELSE /\ num1_str' = n1
                /\ num2_str' = n2
                /\ operator' = op
                /\ pc' = "validate_operator"
                /\ UNCHANGED <<response, exc>>
    /\ UNCHANGED <<caller, data, num1, num2, result, result_float, ret,
                   reached>>

\* a response that is 200 whatever the outcome
RespondAlwaysOk ==
    /\ pc = "returned"
    /\ caller = "transport"
    /\ response' = Response(200, ret.success, ret.result, ret.error)
    /\ pc' = "t_done"
    /\ UNCHANGED <<caller, data, num1_str, num2_str, operator, num1, num2,
                   result, result_float, exc, ret, reached>>

\* "if result['success']: return jsonify(result), 200" and the else branch
Respond ==
    /\ pc = "returned"
    /\ caller = "transport"
    /\ response' = Response(IF ret.success THEN 200 ELSE 400,
                            ret.success, ret.result, ret.error)
    /\ pc' = "t_done"
    /\ UNCHANGED <<caller, data, num1_str, num2_str, operator, num1, num2,
                   result, result_float, exc, ret, reached>>

\* the handler's "except Exception": an exception of the handler's own
\* steps, or one that calculate let through
TransportExcept ==
    /\ \/ pc = "t_except"
       \/ pc = "propagated" /\ caller = "transport"
    /\ response' = Response(500, FALSE, None, ServerError)
    /\ pc' = "t_done"
    /\ UNCHANGED <<caller, data, num1_str, num2_str, operator, num1, num2,
                   result, result_float, exc, ret, reached>>

Next ==
    \/ DirectCall
    \/ ValidateOperator
    \/ ParseOperands
    \/ ZeroCheck
    \/ Compute
    \/ ConvertToFloat
    \/ FormatResult
    \/ ExceptHandler
    \/ GetJson
    \/ CheckData
    \/ ValidateFields
    \/ Respond
    \/ TransportExcept

Spec == Init /\ [][Next]_vars

(***************************************************************************)
(* The exact arithmetic the results are compared with.                     *)
(***************************************************************************)
\* calculate was called and has returned
Returned == pc \in {"returned", "t_done"} /\ "validate_operator" \in reached

\* the operand text is one Decimal() accepts
Parses(text) == ~IsRaised(ParseDecimal(Strip(text)))

\* the operand text denotes a zero: 0, 0.0, -0, 0E+5, ...
IsZeroText(text) ==
    LET d == ParseDecimal(Strip(text))
    IN  d.kind = "fin" /\ NatIsZero(d.int)

\* both operands were parsed and are numbers
FiniteOperands == num1.kind = "fin" /\ num2.kind = "fin"

NonFinite(d) == d.kind \in {"inf", "nan", "snan"}

\* the rational (-1)^sign * (n / d) * 10^e, with naturals n and d > 0
Rational(sign, n, d, e) == [sign |-> sign, n |-> n, d |-> d, e |-> e]

\* a + b for finite decimals, exactly
ExactSum(a, b) ==
    IF NatIsZero(a.int) THEN Rational(b.sign, b.int, <<1>>, b.exp)
    ELSE IF NatIsZero(b.int) THEN Rational(a.sign, a.int, <<1>>, a.exp)
    ELSE
    LET e == Min(a.exp, b.exp)
        x == a.int \o Zeros(a.exp - e)
        y == b.int \o Zeros(b.exp - e)
    IN  IF a.sign = b.sign THEN Rational(a.sign, NatAdd(x, y), <<1>>, e)
        ELSE IF NatCmp(x, y) >= 0 THEN Rational(a.sign, NatSub(x, y), <<1>>, e)
        ELSE Rational(b.sign, NatSub(y, x), <<1>>, e)

\* the exact result of the operation on finite decimals (b nonzero under
\* DIVIDE)
Exact(op, a, b) ==
    CASE op = <<"+">>    -> ExactSum(a, b)
      [] op = <<MINUS>>  -> ExactSum(a, [b EXCEPT !.sign = 1 - b.sign])
      [] op = <<TIMES>>  ->
            Rational(Xor(a.sign, b.sign), NatMul(a.int, b.int), <<1>>,
                     a.exp + b.exp)
      [] op = <<DIVIDE>> ->
            Rational(Xor(a.sign, b.sign), a.int, b.int, a.exp - b.exp)

\* x < 10^MagnitudeBound(x)
MagnitudeBound(x) == Len(x.n) - Len(x.d) + 1 + x.e

\* x is a whole number
IsWhole(x) ==
    IF NatIsZero(x.n) THEN TRUE
    ELSE IF MagnitudeBound(x) <= 0 THEN FALSE
    ELSE IF x.e >= 0 THEN NatIsZero(NatDivMod(x.n \o Zeros(x.e), x.d)[2])
    ELSE NatIsZero(NatDivMod(x.n, x.d \o Zeros(0 - x.e))[2])

\* |x| * 10^NDigits rounded half-even to a natural: |x| itself, scaled, when
\* x has at most NDigits fractional digits
Scaled(x) ==
    IF NatIsZero(x.n) \/ MagnitudeBound(x) + NDigits <= -1 THEN <<0>>
    ELSE IF x.e + NDigits >= 0
    THEN DivRound(x.n \o Zeros(x.e + NDigits), x.d)
    ELSE DivRound(x.n, x.d \o Zeros(0 - x.e - NDigits))

\* the returned number v equals x rounded to NDigits fractional digits
EqualsRounded(v, x) ==
    LET r == Scaled(x)
    IN  IF NatIsZero(v.m) THEN NatIsZero(r)
        ELSE IF v.kind = "int"
        THEN v.sign = x.sign /\ v.m \o Zeros(NDigits) = r
        ELSE ~NatIsZero(r)
             /\ v = NearestDouble(x.sign, r, <<1>> \o Zeros(NDigits))

\* the magnitude of the exact result of the call is below 10^308, within
\* the range of a double (from the operands' adjusted exponents)
InFloatRange ==
    LET a1 == Len(num1.int) + num1.exp
        a2 == Len(num2.int) + num2.exp
    IN  CASE operator = <<TIMES>>  -> a1 + a2 <= 308
          [] operator = <<DIVIDE>> -> a1 - a2 + 1 <= 308
          [] OTHER                 -> Max(a1, a2) + 1 <= 308

\* a call of the claim C1 covers: an accepted operator, two operand texts
\* that are decimal numbers, no division by zero
ValidCall ==
    /\ Returned
    /\ operator \in OPERATORS
    /\ FiniteOperands
    /\ ~(operator = <<DIVIDE>> /\ NatIsZero(num2.int))

(***************************************************************************)
(* C1                                                                      *)
(***************************************************************************)
\* C1: for every pair of operand texts that are decimal numbers and every
\* accepted operator, division by zero excepted, calculate returns success
\* with the exact result of the operation, rounded to 10 fractional digits
\* when it is not whole (stated for the results a double can hold).
C1_ExactResult ==
    ValidCall /\ InFloatRange
        => /\ ret.success
           /\ EqualsRounded(ret.result, Exact(operator, num1, num2))

(***************************************************************************)
(* C2                                                                      *)
(***************************************************************************)
\* C2: with an operator outside the four accepted symbols, whatever the
\* operand texts, calculate enters no step after the operator validation,
\* and returns the failure "Invalid operator: <symbol>".
C2_OperatorValidatedFirst ==
    operator \notin {<<"+">>, <<MINUS>>, <<TIMES>>, <<DIVIDE>>}
    /\ "validate_operator" \in reached
        => /\ reached = {"validate_operator"}
           /\ pc \in {"returned", "t_done"}
           /\ ret = [success |-> FALSE, result |-> None,
                     error |-> <<"Invalid operator: ">> \o operator]
           /\ num1 = NoDec /\ num2 = NoDec /\ result = NoDec

\* the operator is rejected although an operand is malformed too
C2_Witness ==
    /\ pc = "returned"
    /\ operator = <<"-">>
    /\ num1_str = <<"a", "b", "c">>
    /\ ~ret.success

C4_DivideByZero ==
    Returned /\ operator = <<DIVIDE>>
    /\ Parses(num1_str) /\ Parses(num2_str)
    /\ IsZeroText(num2_str)
        => /\ ret = [success |-> FALSE, result |-> None,
                     error |-> <<"Cannot divide by zero">>]
           /\ "compute" \notin reached
           /\ result = NoDec

\* a NaN divided by a negative zero with a fractional digit
C4_Witness ==
    /\ pc = "returned"
    /\ operator = <<DIVIDE>>
    /\ num1_str = <<"N", "a", "N">>
    /\ num2_str = <<"-", "0", ".", "0">>
    /\ ret.error = DivideByZeroError

(***************************************************************************)
(* C5                                                                      *)
(***************************************************************************)
\* C5: for every successful calculation on decimal numbers, a whole exact
\* result is returned as an integer, a returned non-integer is a decimal
\* number rounded to at most 10 fractional digits, and a returned
\* non-integer is never itself a whole number.
C5_FormattingRule ==
    ValidCall /\ ret.success
        => /\ ret.result.kind \in {"int", "float"}
           /\ ret.result.kind = "int"
                 \/ ~IsWhole(Exact(operator, num1, num2))
           /\ ret.result.kind = "float"
                 => /\ FloatRound(ret.result) = ret.result
                    /\ ~FloatIsInteger(ret.result)

(***************************************************************************)
(* C6                                                                      *)
(***************************************************************************)
\* the steps of calculate in the order of the code, the return last
Position(p) ==
    CASE p = "validate_operator" -> 1
      [] p = "parse"             -> 2
      [] p = "zero_check"        -> 3
      [] p = "compute"           -> 4
      [] p = "to_float"          -> 5
      [] p = "format"            -> 6
      [] p = "except"            -> 7
      [] OTHER                   -> 8

\* no exception leaves calculate, and an exception raised outside the
\* parsing try ends in the failure "An unexpected error occurred"
C6_NothingPropagates ==
    /\ pc # "propagated"
    /\ Returned /\ exc # "none"
          => ret = [success |-> FALSE, result |-> None,
                    error |-> <<"An unexpected error occurred">>]

\* C6: calculate never raises past its boundary: whatever the three inputs,
\* an exception of its steps that is not one of the three specific failures
\* ends in the returned failure "An unexpected error occurred", and every
\* step of a call moves on to a later step or to the return, so that the
\* call ends with a returned result.
C6_NeverRaises ==
    /\ []C6_NothingPropagates
    /\ [][Position(pc) < 8 => Position(pc') > Position(pc)]_vars

\* an overflow of the decimal multiplication, returned as the generic failure
C6_Witness ==
    /\ pc = "returned"
    /\ exc = "Overflow"
    /\ operator = <<TIMES>>
    /\ ret.error = UnexpectedError

(***************************************************************************)
(* C7                                                                      *)
(***************************************************************************)
\* C7: every result calculate returns is either success with a result and
\* no error, or failure with no result and exactly one of the four
\* messages "Invalid operator: <symbol>", "Please enter valid numbers",
\* "Cannot divide by zero", "An unexpected error occurred".
C7_TaggedOutcome ==
    Returned
        => \/ /\ ret.success
              /\ ret.result # None
              /\ ret.error = <<>>
           \/ /\ ~ret.success
              /\ ret.result = None
              /\ ret.error \in
                    { <<"Invalid operator: ">> \o operator,
                      <<"Please enter valid numbers">>,
                      <<"Cannot divide by zero">>,
                      <<"An unexpected error occurred">> }

\* a failure of the zero guard: no result, one message
C7_Witness ==
    /\ pc = "returned"
    /\ ~ret.success
    /\ ret.error = DivideByZeroError
    /\ num1_str = <<"3">>

(***************************************************************************)
(* C8                                                                      *)
(***************************************************************************)
\* the text is absent, or blank after trimming
Blank(text) == text = Absent \/ \A i \in 1..Len(text) : text[i] \in Whitespace

\* the payload is missing or empty
EmptyPayload ==
    \/ data.kind \in {"None", "falsy"}
    \/ /\ data.kind = "dict"
       /\ ~data.extra
       /\ data.num1 = Absent /\ data.num2 = Absent /\ data.operator = Absent

\* the payload is a non-empty object in which one of the three fields is
\* absent or blank
BlankField ==
    /\ data.kind = "dict"
    /\ ~EmptyPayload
    /\ Blank(data.num1) \/ Blank(data.num2) \/ Blank(data.operator)

\* C8: a request with a missing or empty payload is answered 400 "No data
\* provided", and a request in which one of num1, num2, operator is absent
\* or blank after trimming is answered 400 "Please fill all fields"; in
\* both cases calculate is never called, and the payload check comes first.
C8_InputShape ==
    /\ EmptyPayload /\ pc \notin {"t_check_data"}
          => /\ pc = "t_done"
             /\ response = [status |-> 400, success |-> FALSE,
                            result |-> None,
                            error |-> <<"No data provided">>]
             /\ reached = {}
    /\ BlankField /\ pc \notin {"t_check_data", "t_fields"}
          => /\ pc = "t_done"
             /\ response = [status |-> 400, success |-> FALSE,
                            result |-> None,
                            error |-> <<"Please fill all fields">>]
             /\ reached = {}

\* two operands and an operator of one space
C8_Witness ==
    /\ pc = "t_done"
    /\ data.kind = "dict"
    /\ data.num1 = <<"1">> /\ data.num2 = <<"3">>
    /\ data.operator = <<" ">>
    /\ response.error = FillAllFieldsError

(***************************************************************************)
(* C9                                                                      *)
(***************************************************************************)
\* C9: for every request whose three fields are non-blank, the response is
\* 200 with the result exactly when calculate returns success and 400 with
\* the failure message exactly when it returns failure; success=True is
\* never sent with another status than 200, success=False never with 200.
C9_StatusFollowsOutcome ==
    /\ pc = "t_done" /\ data.kind = "dict"
       /\ ~Blank(data.num1) /\ ~Blank(data.num2) /\ ~Blank(data.operator)
          => /\ Returned
             /\ response.status = IF ret.success THEN 200 ELSE 400
             /\ response.success = ret.success
             /\ response.result = ret.result
             /\ response.error = ret.error
    /\ pc = "t_done" => (response.success <=> response.status = 200)

\* a failed evaluation answered 400 with the evaluator's message
C9_Witness ==
    /\ pc = "t_done"
    /\ data.kind = "dict"
    /\ "parse" \in reached
    /\ response.status = 400
    /\ response.error = InvalidNumbersError

(***************************************************************************)
(* C10                                                                     *)
(***************************************************************************)
\* C10: whenever calculate returns success the result is a finite number,
\* never None, NaN or an infinity; the None branch of the division lambda
\* is never taken; and an operand or a result that is not finite, or that
\* overflows the float conversion, ends in a failure.
C10_FiniteResult ==
    /\ result.kind # "None"
    /\ Returned /\ ret.success => ret.result.kind \in {"int", "float"}
    /\ Returned /\ ( \/ NonFinite(num1) \/ NonFinite(num2) \/ NonFinite(result)
                     \/ result_float.kind \in {"inf", "nan"} )
          => ~ret.success
====
